---- MODULE Spec2Model ----
(***************************************************************************)
(* Bid validation of the exchange (exchange/bidder_validate_bids.go):      *)
(* validatedBidder.RequestBid wraps an AdaptedBidder, passes the seat bid  *)
(* it returns through removeInvalidBids, and appends the validation errors *)
(* to the wrapped bidder's errors.                                         *)
(*                                                                         *)
(* Seat bids live on a heap and are referred to by address (0 is nil), so  *)
(* that several RequestBid calls, one goroutine per bidder, can be run     *)
(* against each other; a call is split into steps where it reads or writes *)
(* the seat bid.  Strings that are converted (currency codes) are          *)
(* sequences of characters; float64 prices carry the IEEE-754 NaN.         *)
(***************************************************************************)
EXTENDS Integers, Sequences, FiniteSets, TLC

VARIABLES
    request,            \* *openrtb.BidRequest: [Cur], shared by every call, only read
    heap,               \* address -> PBSOrtbSeatBid object
    pc,                 \* position of each RequestBid call
    seatBid,            \* RequestBid's local seatBid: an address, 0 = nil
    errs,               \* RequestBid's local errs
    validationErrors,   \* what the last removeInvalidBids call returned
    cerr,               \* removeInvalidBids' local cerr (line 46), once validateCurrency ran
    bidChecks,          \* the (ok, berr) pairs of the loop at lines 53-59, in order
    calls,              \* how often each wrapped bidder was invoked
    wrapped,            \* what the wrapped bidder returned (value of the seat bid at that time)
    applied,            \* how many removeInvalidBids calls have returned
    before,             \* the seat bid as it was when the last removeInvalidBids call began
    returned            \* RequestBid's return values

vars == <<request, heap, pc, seatBid, errs, validationErrors, cerr, bidChecks,
          calls, wrapped, applied, before, returned>>

-----------------------------------------------------------------------------
(* Bounds *)

MaxBids == 2        \* longest bid list a wrapped bidder returns
NumBidders == 2     \* concurrent RequestBid calls

-----------------------------------------------------------------------------
(* Strings that get converted: sequences of characters *)

LowerLetters == <<"a","b","c","d","e","f","g","h","i","j","k","l","m",
                  "n","o","p","q","r","s","t","u","v","w","x","y","z">>
UpperLetters == <<"A","B","C","D","E","F","G","H","I","J","K","L","M",
                  "N","O","P","Q","R","S","T","U","V","W","X","Y","Z">>

IsLower(c) == \E i \in DOMAIN LowerLetters : LowerLetters[i] = c
IsUpper(c) == \E i \in DOMAIN UpperLetters : UpperLetters[i] = c
IsLetter(c) == IsLower(c) \/ IsUpper(c)

UpperChar(c) ==
    IF IsLower(c)
    THEN UpperLetters[CHOOSE i \in DOMAIN LowerLetters : LowerLetters[i] = c]
    ELSE c

\* strings.ToUpper
ToUpper(s) == [i \in DOMAIN s |-> UpperChar(s[i])]

USD == <<"U","S","D">>
EUR == <<"E","U","R">>
GBP == <<"G","B","P">>
XXX == <<"X","X","X">>

\* The currency table of golang.org/x/text/currency, cut down to four entries.
ISOCodes == {USD, EUR, GBP, XXX}

\* currency.ParseISO: the key must be three letters (tag.FixCase upper-cases
\* it) and must be in the table; Unit.String() is the upper-case code.
ParseISO(s) ==
    IF Len(s) # 3 \/ \E i \in DOMAIN s : ~IsLetter(s[i])
    THEN [ok |-> FALSE, unit |-> <<>>, err |-> "currency: tag is not well-formed"]
    ELSE IF ToUpper(s) \in ISOCodes
         THEN [ok |-> TRUE, unit |-> ToUpper(s), err |-> ""]
         ELSE [ok |-> FALSE, unit |-> <<>>, err |-> "currency: tag is not a recognized currency"]

-----------------------------------------------------------------------------
(* float64 *)

F64(v) == [nan |-> FALSE, val |-> v]
NaN == [nan |-> TRUE, val |-> 0]

\* a <= b on float64: false when either side is NaN
F64Lt(a, b) == ~a.nan /\ ~b.nan /\ a.val < b.val
F64Leq(a, b) == ~a.nan /\ ~b.nan /\ a.val <= b.val

-----------------------------------------------------------------------------
(* Errors *)

NoError == [kind |-> "nil", id |-> "", was |-> <<>>, wants |-> <<>>]
BidError(kind, id) == [kind |-> kind, id |-> id, was |-> <<>>, wants |-> <<>>]
ParseError(msg) == [kind |-> msg, id |-> "", was |-> <<>>, wants |-> <<>>]
CurrencyError(was, wants) ==
    [kind |-> "Bid currency is not allowed", id |-> "", was |-> was, wants |-> wants]
TransportError(id) == [kind |-> "transport", id |-> id, was |-> <<>>, wants |-> <<>>]

-----------------------------------------------------------------------------
(* validateCurrency, lines 65-98 *)

\* the loop of lines 83-88
RECURSIVE currencyAllowed(_, _)
currencyAllowed(allowed, unit) ==
    IF allowed = <<>> THEN FALSE
    ELSE IF ToUpper(Head(allowed)) = unit THEN TRUE
    ELSE currencyAllowed(Tail(allowed), unit)

validateCurrencyCaseSensitive(requestAllowedCurrencies, bidCurrency) ==
    LET cur == IF bidCurrency = <<>> THEN USD ELSE bidCurrency
        parsed == ParseISO(cur)
        allowed == IF Len(requestAllowedCurrencies) = 0 THEN <<USD>>
                   ELSE requestAllowedCurrencies
    IN  IF ~parsed.ok THEN ParseError(parsed.err)
        ELSE IF ~(\E i \in DOMAIN allowed : allowed[i] = parsed.unit)
             THEN CurrencyError(parsed.unit, allowed)
             ELSE NoError

validateCurrency(requestAllowedCurrencies, bidCurrency) ==
    LET defaultCurrency == USD
        cur == IF bidCurrency = <<>> THEN defaultCurrency ELSE bidCurrency
        parsed == ParseISO(cur)
        allowed == IF Len(requestAllowedCurrencies) = 0 THEN <<defaultCurrency>>
                   ELSE requestAllowedCurrencies
    IN  IF ~parsed.ok THEN ParseError(parsed.err)
        ELSE IF ~currencyAllowed(allowed, parsed.unit)
             THEN CurrencyError(parsed.unit, allowed)
             ELSE NoError

-----------------------------------------------------------------------------
(* validateBid, lines 101-120 *)

validateBidPriceFirst(bid) ==
    IF ~bid.Bid.present THEN [ok |-> FALSE, err |-> BidError("Empty bid object submitted.", "")]
    ELSE IF F64Leq(bid.Bid.Price, F64(0))
    THEN [ok |-> FALSE, err |-> BidError("does not contain a positive 'price'", bid.Bid.ID)]
    ELSE IF bid.Bid.ID = ""
    THEN [ok |-> FALSE, err |-> BidError("Bid missing required field 'id'", "")]
    ELSE IF bid.Bid.ImpID = ""
    THEN [ok |-> FALSE, err |-> BidError("missing required field 'impid'", bid.Bid.ID)]
    ELSE IF bid.Bid.CrID = ""
    THEN [ok |-> FALSE, err |-> BidError("missing creative ID", bid.Bid.ID)]
    ELSE [ok |-> TRUE, err |-> NoError]

validateBid(bid) ==
    IF ~bid.Bid.present THEN [ok |-> FALSE, err |-> BidError("Empty bid object submitted.", "")]
    ELSE IF bid.Bid.ID = ""
    THEN [ok |-> FALSE, err |-> BidError("Bid missing required field 'id'", "")]
    ELSE IF bid.Bid.ImpID = ""
    THEN [ok |-> FALSE, err |-> BidError("missing required field 'impid'", bid.Bid.ID)]
    ELSE IF F64Leq(bid.Bid.Price, F64(0))
    THEN [ok |-> FALSE, err |-> BidError("does not contain a positive 'price'", bid.Bid.ID)]
    ELSE IF bid.Bid.CrID = ""
    THEN [ok |-> FALSE, err |-> BidError("missing creative ID", bid.Bid.ID)]
    ELSE [ok |-> TRUE, err |-> NoError]

-----------------------------------------------------------------------------
(* removeInvalidBids, lines 39-62 *)

\* line 41
nothingToDoNilOnly(addr, bids) == addr = 0
nothingToDo(addr, bids) == addr = 0 \/ Len(bids) = 0

\* lines 47-48: the seat bid and the errors of the currency failure
currencyFailureKeepsBids(sb, e) == [seatBid |-> sb, errs |-> <<e>>]
currencyFailure(sb, e) == [seatBid |-> [sb EXCEPT !.Bids = <<>>], errs |-> <<e>>]

\* lines 51-59: the loop, as (validBids, errs, the checks made)
filterBidsPrepending(bids) ==
    LET RECURSIVE loop(_, _, _, _)
        loop(i, validBids, es, checks) ==
            IF i > Len(bids) THEN [validBids |-> validBids, errs |-> es, checks |-> checks]
            ELSE LET r == validateBid(bids[i])
                 IN  IF r.ok
                     THEN loop(i + 1, <<bids[i]>> \o validBids, es, Append(checks, r))
                     ELSE loop(i + 1, validBids, <<r.err>> \o es, Append(checks, r))
    IN  loop(1, <<>>, <<>>, <<>>)

filterBidsKeepingAll(bids) ==
    LET RECURSIVE loop(_, _, _, _)
        loop(i, validBids, es, checks) ==
            IF i > Len(bids) THEN [validBids |-> validBids, errs |-> es, checks |-> checks]
            ELSE LET r == validateBid(bids[i])
                 IN  IF r.ok
                     THEN loop(i + 1, Append(validBids, bids[i]), es, Append(checks, r))
                     ELSE loop(i + 1, Append(validBids, bids[i]), Append(es, r.err), Append(checks, r))
    IN  loop(1, <<>>, <<>>, <<>>)

filterBids(bids) ==
    LET RECURSIVE loop(_, _, _, _)
        loop(i, validBids, es, checks) ==
            IF i > Len(bids) THEN [validBids |-> validBids, errs |-> es, checks |-> checks]
            ELSE LET r == validateBid(bids[i])
                 IN  IF r.ok
                     THEN loop(i + 1, Append(validBids, bids[i]), es, Append(checks, r))
                     ELSE loop(i + 1, validBids, Append(es, r.err), Append(checks, r))
    IN  loop(1, <<>>, <<>>, <<>>)

\* line 60
replaceBidsAndCurrency(sb, validBids) ==
    [sb EXCEPT !.Bids = validBids,
               !.Currency = IF sb.Currency = <<>> THEN USD ELSE sb.Currency]
replaceBids(sb, validBids) == [sb EXCEPT !.Bids = validBids]

\* removeInvalidBids run from entry to return on a seat bid nobody else
\* touches: the seat bid it leaves and the errors it returns
removeInvalidBids(req, addr, sb) ==
    IF nothingToDo(addr, sb.Bids) THEN [seatBid |-> sb, errs |-> <<>>]
    ELSE LET e == validateCurrency(req.Cur, sb.Currency)
         IN  IF e # NoError THEN currencyFailure(sb, e)
             ELSE LET f == filterBids(sb.Bids)
                  IN  [seatBid |-> replaceBids(sb, f.validBids), errs |-> f.errs]

-----------------------------------------------------------------------------
(* validatedBidder.RequestBid, lines 30-36 *)

\* lines 32-34
appendValidationErrorsFirst(es, ves) == IF Len(ves) > 0 THEN ves \o es ELSE es
appendValidationErrors(es, ves) == IF Len(ves) > 0 THEN es \o ves ELSE es

\* the seat bid a call sanitizes: the one its own wrapped call returned
sharedSeatBid(b) == IF seatBid[b] = 0 THEN 0 ELSE 1
ownSeatBid(b) == seatBid[b]

-----------------------------------------------------------------------------
(* Inputs *)

Bidders == 1 .. NumBidders
Addrs == 1 .. NumBidders

NilPayload == [present |-> FALSE, ID |-> "", ImpID |-> "", Price |-> F64(0), CrID |-> "", DealID |-> ""]

Prices == {F64(0 - 1), F64(0), F64(1), NaN}

Payloads ==
    [present : {TRUE}, ID : {"", "b1", "b2"}, ImpID : {"", "imp1"},
     Price : Prices, CrID : {"", "c1"}, DealID : {""}]
    \cup [present : {TRUE}, ID : {"b1"}, ImpID : {"imp1"},
          Price : {F64(1)}, CrID : {"", "c1"}, DealID : {"d1"}]

\* every PBSOrtbBid of the model
BidValues == [Bid : Payloads \cup {NilPayload}]

GoodBid(id) == [Bid |-> [present |-> TRUE, ID |-> id, ImpID |-> "imp1",
                         Price |-> F64(1), CrID |-> "c1", DealID |-> ""]]
\* the bids that fill the long lists
CommonBids ==
    {GoodBid("b1"), GoodBid("b2"),
     [Bid |-> [GoodBid("b1").Bid EXCEPT !.Price = F64(0)]]}

\* bid lists up to MaxBids long in which at most one bid is not a common one
BidLists ==
    UNION {{s \in [1 .. n -> BidValues] :
                Cardinality({i \in 1 .. n : s[i] \notin CommonBids}) <= 1}
           : n \in 0 .. MaxBids}

CurrencyInputs == {<<>>, USD, <<"u","s","d">>, <<"e","u","r">>, <<"Z","Z","Z">>, <<"U","S">>}
AcceptedLists == {<<>>, <<<<"e","u","r">>>>, <<GBP, <<"U","s","d">>>>}
TransportErrorLists == {<<>>, <<TransportError("t1"), TransportError("t2")>>}

NilSeatBid == [Currency |-> <<>>, Bids |-> <<>>]
NoObject == [alloc |-> FALSE, sb |-> NilSeatBid]

\* what a wrapped bidder may return
Responses ==
    [nil : {FALSE}, sb : [Currency : CurrencyInputs, Bids : BidLists],
     errs : TransportErrorLists]
    \cup [nil : {TRUE}, sb : {NilSeatBid}, errs : TransportErrorLists]

\* what the bidders of the concurrent auction may return: nil, an empty seat
\* bid, and a seat bid with a good and a bad bid, in a permitted and in an
\* unrecognized currency
ConcurrentResponses ==
    {r \in Responses :
        /\ r.sb.Currency \in {<<>>, <<"Z","Z","Z">>}
        /\ r.errs = <<>>
        /\ r.sb.Bids \in {<<>>, <<GoodBid("b1"), [Bid |-> [GoodBid("b1").Bid EXCEPT !.Price = F64(0)]]>>}}

NoResponse == [nil |-> TRUE, sb |-> NilSeatBid, errs |-> <<>>, addr |-> 0]
NoReturn == [seatBid |-> 0, errs |-> <<>>]

-----------------------------------------------------------------------------
(* The state machine *)

Init ==
    /\ request \in [Cur : AcceptedLists]
    /\ heap = [a \in Addrs |-> NoObject]
    /\ pc = [b \in Bidders |-> "start"]
    /\ seatBid = [b \in Bidders |-> 0]
    /\ errs = [b \in Bidders |-> <<>>]
    /\ validationErrors = [b \in Bidders |-> <<>>]
    /\ cerr = [b \in Bidders |-> [called |-> FALSE, err |-> NoError]]
    /\ bidChecks = [b \in Bidders |-> <<>>]
    /\ calls = [b \in Bidders |-> 0]
    /\ wrapped = [b \in Bidders |-> NoResponse]
    /\ applied = [b \in Bidders |-> 0]
    /\ before = [b \in Bidders |-> NilSeatBid]
    /\ returned = [b \in Bidders |-> NoReturn]

\* line 31: v.bidder.RequestBid(...) returns a seat bid of its own (or nil) and errors
WrappedRequestBid(b, responses) ==
    /\ pc[b] = "start"
    /\ \E r \in responses :
        LET a == CHOOSE x \in Addrs : ~heap[x].alloc /\ \A y \in Addrs : ~heap[y].alloc => x <= y
        IN  /\ wrapped' = [wrapped EXCEPT ![b] =
                    [nil |-> r.nil, sb |-> r.sb, errs |-> r.errs, addr |-> IF r.nil THEN 0 ELSE a]]
            /\ errs' = [errs EXCEPT ![b] = r.errs]
            /\ IF r.nil
               THEN seatBid' = [seatBid EXCEPT ![b] = 0] /\ heap' = heap
               ELSE /\ seatBid' = [seatBid EXCEPT ![b] = a]
                    /\ heap' = [heap EXCEPT ![a] = [alloc |-> TRUE, sb |-> r.sb]]
    /\ calls' = [calls EXCEPT ![b] = @ + 1]
    /\ pc' = [pc EXCEPT ![b] = "removeInvalidBids"]
    /\ UNCHANGED <<request, validationErrors, cerr, bidChecks, applied, before, returned>>

\* the seat bid object a call works on (NilSeatBid stands in when the pointer is nil)
Deref(a) == IF a = 0 THEN NilSeatBid ELSE heap[a].sb

\* lines 39-49: the early exit and the currency gate
CheckCurrency(b) ==
    /\ pc[b] = "removeInvalidBids"
    /\ LET a == ownSeatBid(b)
           sb == Deref(a)
       IN  /\ before' = [before EXCEPT ![b] = sb]
           /\ bidChecks' = [bidChecks EXCEPT ![b] = <<>>]
           /\ IF nothingToDo(a, sb.Bids)
              THEN /\ validationErrors' = [validationErrors EXCEPT ![b] = <<>>]
                   /\ cerr' = [cerr EXCEPT ![b] = [called |-> FALSE, err |-> NoError]]
                   /\ applied' = [applied EXCEPT ![b] = @ + 1]
                   /\ pc' = [pc EXCEPT ![b] = "append"]
                   /\ heap' = heap
              ELSE LET e == validateCurrency(request.Cur, sb.Currency)
                   IN  /\ cerr' = [cerr EXCEPT ![b] = [called |-> TRUE, err |-> e]]
                       /\ IF e # NoError
                          THEN LET f == currencyFailure(sb, e)
                               IN  /\ heap' = [heap EXCEPT ![a].sb = f.seatBid]
                                   /\ validationErrors' = [validationErrors EXCEPT ![b] = f.errs]
                                   /\ applied' = [applied EXCEPT ![b] = @ + 1]
                                   /\ pc' = [pc EXCEPT ![b] = "append"]
                          ELSE /\ heap' = heap
                               /\ pc' = [pc EXCEPT ![b] = "filter"]
                               /\ UNCHANGED <<validationErrors, applied>>
    /\ UNCHANGED <<request, seatBid, errs, calls, wrapped, returned>>

\* lines 51-61: the loop over the bids and the replacement of the list
FilterBids(b) ==
    /\ pc[b] = "filter"
    /\ LET a == ownSeatBid(b)
           f == filterBids(heap[a].sb.Bids)
       IN  /\ heap' = [heap EXCEPT ![a].sb = replaceBids(@, f.validBids)]
           /\ validationErrors' = [validationErrors EXCEPT ![b] = f.errs]
           /\ bidChecks' = [bidChecks EXCEPT ![b] = f.checks]
    /\ applied' = [applied EXCEPT ![b] = @ + 1]
    /\ pc' = [pc EXCEPT ![b] = "append"]
    /\ UNCHANGED <<request, seatBid, errs, cerr, calls, wrapped, before, returned>>

\* lines 32-35: append the validation errors and return
Return(b) ==
    /\ pc[b] = "append"
    /\ applied[b] = 1
    /\ errs' = [errs EXCEPT ![b] = appendValidationErrors(@, validationErrors[b])]
    /\ returned' = [returned EXCEPT ![b] = [seatBid |-> seatBid[b], errs |-> errs'[b]]]
    /\ pc' = [pc EXCEPT ![b] = "done"]
    /\ UNCHANGED <<request, heap, seatBid, validationErrors, cerr, bidChecks,
                   calls, wrapped, applied, before>>

\* removeInvalidBids called once more, with the same request, on the seat bid
\* that RequestBid returned
Reapply(b) ==
    /\ pc[b] = "done"
    /\ applied[b] = 1
    /\ pc' = [pc EXCEPT ![b] = "removeInvalidBids"]
    /\ UNCHANGED <<request, heap, seatBid, errs, validationErrors, cerr, bidChecks,
                   calls, wrapped, applied, before, returned>>

\* one RequestBid call
Next ==
    \/ WrappedRequestBid(1, Responses)
    \/ CheckCurrency(1)
    \/ FilterBids(1)
    \/ Return(1)
    \/ Reapply(1)

Spec == Init /\ [][Next]_vars

\* one RequestBid call per bidder, each on its own goroutine
NextConcurrent ==
    \/ \E b \in Bidders : WrappedRequestBid(b, ConcurrentResponses)
    \/ \E b \in Bidders : CheckCurrency(b)
    \/ \E b \in Bidders : FilterBids(b)
    \/ \E b \in Bidders : Return(b)

SpecConcurrent == Init /\ [][NextConcurrent]_vars

-----------------------------------------------------------------------------
(* Properties *)

\* a removeInvalidBids call of b has just returned: before[b] is the seat bid
\* it was given, Deref(seatBid[b]) the seat bid it left
Sanitized(b) == pc[b] = "append"

\* the accepted set of the request: the upper-cased codes, [USD] for an empty list
AcceptedCodes(accepted) ==
    LET acc == IF accepted = <<>> THEN <<USD>> ELSE accepted
    IN  {ToUpper(acc[i]) : i \in DOMAIN acc}

\* the declared currency (USD when empty) is a recognized code of the accepted set
CurrencyPermitted(accepted, declared) ==
    LET p == ParseISO(IF declared = <<>> THEN USD ELSE declared)
    IN  p.ok /\ p.unit \in AcceptedCodes(accepted)

\* what the claims require of a surviving bid
WellFormed(bid) ==
    /\ bid.Bid.present
    /\ bid.Bid.ID # ""
    /\ bid.Bid.ImpID # ""
    /\ F64Lt(F64(0), bid.Bid.Price)
    /\ bid.Bid.CrID # ""

\* C1: after removeInvalidBids returns, every bid still in the seat bid's list
\* has a present payload, a non-empty id, a non-empty impression id, a price
\* greater than 0 and a non-empty creative id.
C1_SurvivorsWellFormed ==
    \A b \in Bidders :
        Sanitized(b) =>
            \A i \in DOMAIN Deref(seatBid[b]).Bids : WellFormed(Deref(seatBid[b]).Bids[i])

\* C1, for prices that are numbers: a surviving bid is well formed unless its
\* price is NaN.
SurvivorsWellFormedOrNaN ==
    \A b \in Bidders :
        Sanitized(b) =>
            \A i \in DOMAIN Deref(seatBid[b]).Bids :
                LET bid == Deref(seatBid[b]).Bids[i]
                IN  WellFormed(bid) \/ (bid.Bid.present /\ bid.Bid.Price.nan)

\* C2 as stated: a seat bid whose currency is not permitted comes back with an
\* empty bid list and exactly one error, however many bids it had, zero included.
C2_RejectedCurrencyAnyLength ==
    \A b \in Bidders :
        (Sanitized(b) /\ seatBid[b] # 0
            /\ ~CurrencyPermitted(request.Cur, before[b].Currency))
        => /\ Deref(seatBid[b]).Bids = <<>>
           /\ Len(validationErrors[b]) = 1

\* C2 amended: a seat bid with at least one bid whose currency is not permitted
\* comes back with an empty bid list and exactly one error, whether or not its
\* bids are valid.
C2_RejectedCurrencyNonEmpty ==
    \A b \in Bidders :
        (Sanitized(b) /\ seatBid[b] # 0 /\ Len(before[b].Bids) > 0
            /\ ~CurrencyPermitted(request.Cur, before[b].Currency))
        => /\ Deref(seatBid[b]).Bids = <<>>
           /\ Len(validationErrors[b]) = 1
           /\ validationErrors[b][1] = cerr[b].err

C2_Witness ==
    /\ Sanitized(1) /\ applied[1] = 1
    /\ before[1].Bids = <<GoodBid("b1"), GoodBid("b2")>>
    /\ before[1].Currency = <<"e","u","r">> /\ request.Cur = <<>>
    /\ Deref(seatBid[1]).Bids = <<>>
    /\ Len(validationErrors[1]) = 1

\* C3: on a nil seat bid or an empty bid list removeInvalidBids returns no
\* errors and leaves the seat bid (and the heap, when it is nil) as it was,
\* whatever the currencies are.
C3_NothingToDo ==
    \A b \in Bidders :
        (Sanitized(b) /\ (seatBid[b] = 0 \/ Len(before[b].Bids) = 0))
        => /\ validationErrors[b] = <<>>
           /\ Deref(seatBid[b]) = before[b]
           /\ seatBid[b] = 0 => \A a \in Addrs : heap[a] = NoObject

C3_Witness ==
    /\ Sanitized(1) /\ applied[1] = 1
    /\ seatBid[1] # 0 /\ wrapped[1].sb.Bids = <<>>
    /\ wrapped[1].sb.Currency = <<"Z","Z","Z">>
    /\ ~CurrencyPermitted(request.Cur, wrapped[1].sb.Currency)
    /\ validationErrors[1] = <<>>
    /\ Deref(seatBid[1]) = wrapped[1].sb

\* C4: a RequestBid call invokes the wrapped bidder exactly once and returns the
\* seat bid that call returned, sanitized, with the wrapped bidder's errors in
\* their order followed by the validation errors; without validation errors
\* the error list is the wrapped bidder's.
C4_RequestBidReturn ==
    \A b \in Bidders :
        /\ calls[b] <= 1
        /\ pc[b] = "done" =>
            /\ calls[b] = 1
            /\ returned[b].seatBid = wrapped[b].addr
            /\ Deref(returned[b].seatBid) =
                   removeInvalidBids(request, wrapped[b].addr, wrapped[b].sb).seatBid
            /\ returned[b].errs = wrapped[b].errs \o validationErrors[b]
            /\ validationErrors[b] = <<>> => returned[b].errs = wrapped[b].errs

C4_Witness ==
    /\ pc[1] = "done"
    /\ wrapped[1].errs = <<TransportError("t1"), TransportError("t2")>>
    /\ Len(validationErrors[1]) = 2
    /\ Len(returned[1].errs) = 4
    /\ returned[1].errs[3] = validationErrors[1][1]

\* the five rules of validateBid, in their order, and their messages
RuleViolated(k, bid) ==
    CASE k = 1 -> ~bid.Bid.present
      [] k = 2 -> bid.Bid.ID = ""
      [] k = 3 -> bid.Bid.ImpID = ""
      [] k = 4 -> F64Leq(bid.Bid.Price, F64(0))
      [] k = 5 -> bid.Bid.CrID = ""

RuleMessage ==
    <<"Empty bid object submitted.", "Bid missing required field 'id'",
      "missing required field 'impid'", "does not contain a positive 'price'",
      "missing creative ID">>

FirstViolated(bid) ==
    CHOOSE k \in 1 .. 5 : RuleViolated(k, bid) /\ \A j \in 1 .. (k - 1) : ~RuleViolated(j, bid)

\* C5: validateBid accepts a bid exactly when it violates none of the five
\* rules, whatever its other fields are, and otherwise reports one error, that
\* of the first rule violated in the order payload, id, impression id, price,
\* creative id.
C5_FirstViolatedRule ==
    \A b \in Bidders :
        (Sanitized(b) /\ cerr[b].called /\ cerr[b].err = NoError) =>
            /\ Len(bidChecks[b]) = Len(before[b].Bids)
            /\ \A i \in DOMAIN bidChecks[b] :
                LET bid == before[b].Bids[i]
                    r == bidChecks[b][i]
                IN  /\ r.ok <=> \A k \in 1 .. 5 : ~RuleViolated(k, bid)
                    /\ r.ok => r.err = NoError
                    /\ ~r.ok => /\ r.err.kind = RuleMessage[FirstViolated(bid)]
                                /\ r.err.id = IF FirstViolated(bid) <= 2 THEN "" ELSE bid.Bid.ID

C5_Witness ==
    /\ Sanitized(1)
    /\ Len(bidChecks[1]) = 2
    /\ before[1].Bids[1].Bid.present
    /\ before[1].Bids[1].Bid.ID = ""
    /\ before[1].Bids[1].Bid.Price = F64(0)
    /\ bidChecks[1][1].err.kind = "Bid missing required field 'id'"
    /\ bidChecks[1][2].ok

\* C6: validateCurrency succeeds exactly when the declared currency (USD when
\* empty) parses to a recognized code that is the upper-cased form of an
\* accepted code ([USD] when the list is empty); with an empty accepted list
\* it passes for "" and "USD" and fails for every recognized code but USD.
C6_ValidateCurrency ==
    \A b \in Bidders :
        cerr[b].called =>
            /\ cerr[b].err = NoError <=> CurrencyPermitted(request.Cur, before[b].Currency)
            /\ request.Cur = <<>> =>
                /\ before[b].Currency \in {<<>>, USD} => cerr[b].err = NoError
                /\ (ParseISO(before[b].Currency).ok /\ ParseISO(before[b].Currency).unit # USD)
                       => cerr[b].err # NoError

C6_Witness ==
    /\ cerr[1].called /\ cerr[1].err = NoError
    /\ before[1].Currency = <<"u","s","d">>
    /\ request.Cur = <<GBP, <<"U","s","d">>>>

\* C7: with one RequestBid call per bidder running concurrently, each on the
\* seat bid its own wrapped call returned, a call's seat bid is as its wrapped
\* bidder returned it until the call sanitizes it, and afterwards the seat bid
\* and the errors are those of the call running alone.
C7_CallsDoNotInterfere ==
    \A b \in Bidders :
        LET alone == removeInvalidBids(request, wrapped[b].addr, wrapped[b].sb)
        IN  /\ pc[b] \in {"removeInvalidBids", "filter"} => Deref(seatBid[b]) = wrapped[b].sb
            /\ pc[b] \in {"append", "done"} =>
                /\ Deref(seatBid[b]) = alone.seatBid
                /\ validationErrors[b] = alone.errs
            /\ pc[b] = "done" => returned[b] = [seatBid |-> wrapped[b].addr,
                                                errs |-> wrapped[b].errs \o alone.errs]

C7_Witness ==
    /\ \A b \in Bidders : pc[b] = "done" /\ seatBid[b] # 0
    /\ \A b, c \in Bidders : b # c => seatBid[b] # seatBid[c]
    /\ \E b, c \in Bidders :
        /\ Len(wrapped[b].sb.Bids) = 2 /\ Len(Deref(seatBid[b]).Bids) = 1
        /\ Len(wrapped[c].sb.Bids) = 2 /\ Len(Deref(seatBid[c]).Bids) = 0

PassesValidateBid(bid) == \A k \in 1 .. 5 : ~RuleViolated(k, bid)
FailsValidateBid(bid) == ~PassesValidateBid(bid)

\* C8: on a seat bid with at least one bid and a permitted currency the bid
\* list becomes the input bids that pass validation, in their order, and the
\* errors are one per failing bid, in the order of the failing bids; survivors
\* plus errors number the input bids.
C8_FilterKeepsOrder ==
    \A b \in Bidders :
        (Sanitized(b) /\ seatBid[b] # 0 /\ Len(before[b].Bids) > 0
            /\ CurrencyPermitted(request.Cur, before[b].Currency))
        => LET failing == SelectSeq(before[b].Bids, FailsValidateBid)
           IN  /\ Deref(seatBid[b]).Bids = SelectSeq(before[b].Bids, PassesValidateBid)
               /\ validationErrors[b] = [i \in DOMAIN failing |-> validateBid(failing[i]).err]
               /\ Len(Deref(seatBid[b]).Bids) + Len(validationErrors[b]) = Len(before[b].Bids)

C8_Witness ==
    /\ Sanitized(1) /\ applied[1] = 1
    /\ before[1].Bids = <<GoodBid("b2"), GoodBid("b1")>>
    /\ Deref(seatBid[1]).Bids = <<GoodBid("b2"), GoodBid("b1")>>
    /\ validationErrors[1] = <<>>

\* C9: a second removeInvalidBids call with the same request on the sanitized
\* seat bid leaves the bid list as the first call left it and returns no errors.
C9_Idempotent ==
    \A b \in Bidders :
        (Sanitized(b) /\ applied[b] = 2) =>
            /\ Deref(seatBid[b]).Bids = before[b].Bids
            /\ validationErrors[b] = <<>>

C9_Witness ==
    /\ Sanitized(1) /\ applied[1] = 2
    /\ Len(wrapped[1].sb.Bids) = 2
    /\ Len(Deref(seatBid[1]).Bids) = 1
    /\ CurrencyPermitted(request.Cur, wrapped[1].sb.Currency)

\* C10: no step changes the request, the declared currency of a seat bid or a
\* bid: the bids of a seat bid's list afterwards are bids it held before.
C10_OnlyBidListChanges ==
    [][/\ request' = request
       /\ \A a \in Addrs :
            heap[a].alloc =>
                /\ heap'[a].alloc
                /\ heap'[a].sb.Currency = heap[a].sb.Currency
                /\ \A i \in DOMAIN heap'[a].sb.Bids :
                       \E j \in DOMAIN heap[a].sb.Bids : heap'[a].sb.Bids[i] = heap[a].sb.Bids[j]]_vars

C10_Witness ==
    /\ Sanitized(1) /\ applied[1] = 1
    /\ request.Cur = <<>>
    /\ before[1].Currency = <<>> /\ Len(before[1].Bids) = 2
    /\ Deref(seatBid[1]).Currency = <<>>
    /\ Len(Deref(seatBid[1]).Bids) = 1

====
